---- MODULE Spec2Model ----
(***************************************************************************)
(* pdf2dxf: the illustration locator (iter_pages_and_sizes), the scoped   *)
(* temporary directory (iter_svg_from_pdf, chdir), the drawing assembler  *)
(* (convert) and the driver loop (run) of src/pdf2dxf.py.                  *)
(*                                                                         *)
(* Numbers: source coordinates are integers (PDF points).  A destination  *)
(* coordinate v / 72 * 25.4 mm is kept exactly, as the integer v * 254 in  *)
(* units of 1/720 mm.                                                      *)
(***************************************************************************)
EXTENDS Integers, Sequences, FiniteSets

(* ------------------------------ bounds --------------------------------- *)

\* page records in one metadata document
MaxPages == 2
\* illustration regions in one page record
MaxIlls == 2
\* nodes of a shape tree and segments of a path node (convert alone)
MaxParts == 2
MaxSegs == 2
\* nodes of the shape tree of a vector file met by run(); each path node
\* there has at most one segment
RunMaxParts == 1
\* illustration regions in one page record of the document met by run()
RunMaxIlls == 1

(* --------------------------- input alphabets --------------------------- *)

\* An XML attribute as element.get() sees it: absent (None) or a text, a
\* sequence of characters.
SizeTexts == { <<>>, <<"x">>, <<"0">>, <<"-", "7">>, <<"7", "2">> }

SizeAttrs == {[present |-> FALSE, text |-> <<>>]}
               \cup {[present |-> TRUE, text |-> t] : t \in SizeTexts}

FileIdTexts == { <<>>, <<"a">>, <<"b">> }

FileIdAttrs == {[present |-> FALSE, text |-> <<>>]}
                 \cup {[present |-> TRUE, text |-> t] : t \in FileIdTexts}

SeqsUpTo(S, n) == UNION {[1..m -> S] : m \in 0..n}

\* a Page element: its WIDTH, HEIGHT and the FILEIDs of the Illustration
\* elements below it, in document order.  The two sizes are equal, or one
\* of them is the plain 72.
PageRecsOf(n) ==
  { p \in [w : SizeAttrs, h : SizeAttrs, ills : SeqsUpTo(FileIdAttrs, n)] :
      p.w = p.h \/ p.w.text = <<"7", "2">> \/ p.h.text = <<"7", "2">> }

(* ------------------------- iter_pages_and_sizes ------------------------- *)

IsDigit(ch) == ch \in {"0", "2", "7"}

DigitVal(ch) == CASE ch = "0" -> 0 [] ch = "2" -> 2 [] ch = "7" -> 7

RECURSIVE DigitsVal(_)
DigitsVal(s) == IF s = <<>> THEN 0
                ELSE DigitsVal(SubSeq(s, 1, Len(s) - 1)) * 10 + DigitVal(s[Len(s)])

\* variant: a parser that drops the characters it does not know
ParseFloatLenient(s) ==
  LET neg  == s # <<>> /\ s[1] = "-"
      body == IF neg THEN Tail(s) ELSE s
      digs == SelectSeq(body, IsDigit)
  IN  [ok |-> TRUE, val |-> IF neg THEN 0 - DigitsVal(digs) ELSE DigitsVal(digs)]

\* float(text): an optional sign and one or more digits, ValueError otherwise
\* (ok = FALSE)
ParseFloat(s) ==
  LET neg  == s # <<>> /\ s[1] = "-"
      body == IF neg THEN Tail(s) ELSE s
      ok   == body # <<>> /\ \A i \in 1..Len(body) : IsDigit(body[i])
  IN  [ok  |-> ok,
       val |-> IF ~ok THEN 0 ELSE IF neg THEN 0 - DigitsVal(body) ELSE DigitsVal(body)]

\* variant: `is not None`
TruthyNotNone(a) == a.present

\* truth value of an attribute in `if w and h and svg_path`
Truthy(a) == a.present /\ a.text # <<>>

\* variant: pop(0)
PopFirst(ills) == ills[1]

\* page.xpath(".//alto:Illustration").pop()
PopIllustration(ills) == ills[Len(ills)]

\* //alto:Page[.//alto:Illustration]
HasIllustration(p) == p.ills # <<>>

\* the body of the loop for one matched page: the descriptor it yields, as a
\* sequence of length one, or the empty sequence when the page is passed over
PageYield(p) ==
  LET w == p.w
      h == p.h
      svg_path == PopIllustration(p.ills)
      fw == ParseFloat(w.text)
      fh == ParseFloat(h.text)
  IN  IF Truthy(w) /\ Truthy(h) /\ Truthy(svg_path)
      THEN IF fw.ok /\ fh.ok
           THEN << [path |-> svg_path.text, w |-> fw.val, h |-> fh.val] >>
           ELSE << >>
      ELSE << >>

(* -------------------------------- convert ------------------------------- *)

\* the segments of the parsed vector file: sequences of points, in PDF points
Segments == { << >>,
              << [x |-> 36, y |-> 72] >>,
              << [x |-> 36, y |-> 72], [x |-> 0, y |-> 0] >> }

\* bmax.y of image.bbox(): the box holds every point and may be larger
BBoxYs == { 72, 144 }

\* a node of image.flatten(): a path (it has segments), a node without the
\* segments attribute, or a path whose segments() raises
Parts(ns) ==
  {[kind |-> "Path", segs |-> s] : s \in SeqsUpTo(Segments, ns)}
    \cup {[kind |-> "Text", segs |-> << >>], [kind |-> "Broken", segs |-> << >>]}

\* what svg.parse returns
ImagesOf(np, ns) == [parts : SeqsUpTo(Parts(ns), np), bmaxY : BBoxYs]

\* hasattr(part, 'segments')
HasSegments(part) == part.kind \in {"Path", "Broken"}

\* v / 72 * 25.4, in units of 1/720 mm
PtToMm(v) == v * 254

\* variant: unit conversion without the flip
FlippedYNoFlip(p, max_y) == << PtToMm(p.x), PtToMm(p.y) >>

\* flipped_y(p)
FlippedY(p, max_y) == << PtToMm(p.x), PtToMm(max_y - p.y) >>

\* dxf.polyline([flipped_y(p) for p in segment])
Polyline(segment, max_y) == [i \in 1..Len(segment) |-> FlippedY(segment[i], max_y)]

\* variant: empty segments are left out
PartPolylinesNonEmpty(part, max_y) ==
  LET segs == SelectSeq(part.segs, LAMBDA s : s # << >>)
  IN  [j \in 1..Len(segs) |-> Polyline(segs[j], max_y)]

\* the polylines the inner loop adds for one part, in order
PartPolylines(part, max_y) ==
  [j \in 1..Len(part.segs) |-> Polyline(part.segs[j], max_y)]

(* ------------------------- chdir, check_call, run ----------------------- *)

\* variant: the working directory is not changed
ChdirEnterStay(path, curdir) == curdir

\* chdir(path), entering: os.chdir(path)
ChdirEnter(path, curdir) == path

\* chdir(path), leaving: os.chdir(curdir) runs only when the body of the
\* with statement ended without an exception (there is no try/finally)
ChdirExit(curdir, now, raised) == IF raised THEN now ELSE curdir

\* variant: subprocess.call, the exit code is dropped
CallIgnoresCode(code) == FALSE

\* subprocess.check_call raises CalledProcessError
CheckCallRaises(code) == code # 0

\* `if c > 0: break`
BreakCond(n) == n > 0

(* -------------------------------- state -------------------------------- *)

VARIABLES
  pc,        \* position of the consumer: run(), or the caller of convert
  gpc,       \* position of the generator
  tmpdir,    \* "none", "exists" or "removed"
  cwd,       \* process working directory: "orig" or "tmp"
  rc,        \* exit code of the extraction subprocess, -1 before it ran
  nRead,     \* Page elements of the document read so far
  nYielded,  \* descriptors yielded so far
  nSkipped,  \* illustrated pages passed over so far
  page,      \* << the illustrated Page element visited last >>
  desc,      \* << the descriptor yielded for page >>, << >> when passed over
  image,     \* << the parsed vector file >>
  k,         \* index of the next part of image.flatten()
  drawing,   \* << the drawing of the running call of convert >>
  dxfFile,   \* << the file at the output path >>, << >> while there is none
  calls      \* the values of c convert was called with, in order

vars == << pc, gpc, tmpdir, cwd, rc, nRead, nYielded, nSkipped, page, desc,
           image, k, drawing, dxfFile, calls >>

locVars == << nRead, nYielded, nSkipped, page, desc >>
fsVars == << tmpdir, cwd, rc >>
convVars == << image, k, drawing, dxfFile, calls >>

\* the counter of enumerate() for the item yielded last
c == nYielded - 1

(* ----------------------- iter_pages_and_sizes, steps -------------------- *)

\* etree.parse(alto_file): the document parses, or the error leaves the
\* generator (and the with statement around it, which restores nothing)
LocParse ==
  /\ pc = "advance" /\ gpc = "parse"
  /\ \E ok \in BOOLEAN :
       IF ok
       THEN gpc' = "loop" /\ UNCHANGED << pc, cwd >>
       ELSE gpc' = "raised" /\ pc' = "error" /\ cwd' = ChdirExit("orig", cwd, TRUE)
  /\ UNCHANGED << tmpdir, rc, locVars, convVars >>

\* one Page element of the document: the xpath passes over it when it holds
\* no Illustration; otherwise one run of the loop body
VisitPage(p) ==
  /\ nRead' = nRead + 1
  /\ IF ~HasIllustration(p)
     THEN UNCHANGED << pc, gpc, nYielded, nSkipped, page, desc >>
     ELSE /\ page' = << p >>
          /\ desc' = PageYield(p)
          /\ IF PageYield(p) # << >>
             THEN /\ gpc' = "yield" /\ pc' = "yielded"
                  /\ nYielded' = nYielded + 1
                  /\ UNCHANGED nSkipped
             ELSE /\ nSkipped' = nSkipped + 1
                  /\ UNCHANGED << pc, gpc, nYielded >>

LocVisit ==
  /\ pc = "advance" /\ gpc = "loop" /\ nRead < MaxPages
  /\ \E p \in PageRecsOf(MaxIlls) : VisitPage(p)
  /\ UNCHANGED << fsVars, convVars >>

\* the same step on the document written by the extraction subprocess
RunVisit ==
  /\ pc = "advance" /\ gpc = "loop" /\ nRead < MaxPages
  /\ \E p \in PageRecsOf(RunMaxIlls) : VisitPage(p)
  /\ UNCHANGED << fsVars, convVars >>

\* the document has no further Page: the generator function returns
LocExhaust ==
  /\ pc = "advance" /\ gpc = "loop"
  /\ gpc' = "returned"
  /\ UNCHANGED << pc, fsVars, locVars, convVars >>

\* the consumer of iter_pages_and_sizes asks for the next item
LocResume ==
  /\ pc = "yielded" /\ gpc = "yield"
  /\ pc' = "advance" /\ gpc' = "loop"
  /\ UNCHANGED << fsVars, locVars, convVars >>

(* --------------------------- iter_svg_from_pdf -------------------------- *)

\* first advance: mkdtemp, with chdir(tmpdir), check_call
GenStart ==
  /\ pc = "advance" /\ gpc = "created"
  /\ tmpdir' = "exists"
  /\ \E code \in {0, 1} :
       /\ rc' = code
       /\ IF CheckCallRaises(code)
          THEN /\ gpc' = "raised" /\ pc' = "error"
               /\ cwd' = ChdirExit(cwd, ChdirEnter("tmp", cwd), TRUE)
          ELSE /\ gpc' = "parse" /\ pc' = pc
               /\ cwd' = ChdirEnter("tmp", cwd)
  /\ UNCHANGED << locVars, convVars >>

\* the inner generator returned: the with statement ends normally, then
\* rmtree; StopIteration ends the loop of run()
GenEpilogue ==
  /\ pc = "advance" /\ gpc = "returned"
  /\ cwd' = ChdirExit("orig", cwd, FALSE)
  /\ tmpdir' = "removed"
  /\ gpc' = "done" /\ pc' = "done"
  /\ UNCHANGED << rc, locVars, convVars >>

(* -------------------------------- convert ------------------------------- *)

\* svg.parse(source), image.bbox(), dxf.drawing(dest); the relative source
\* resolves only inside the temporary directory
ParseInto(imgs) ==
  \/ /\ pc' = "error"
     /\ UNCHANGED << image, k, drawing >>
  \/ /\ cwd = "tmp" /\ tmpdir = "exists"
     /\ \E im \in imgs :
          /\ image' = << im >>
          /\ k' = 1
          /\ drawing' = << [entities |-> << >>, saves |-> 0] >>
     /\ pc' = "parts"

ConvertCall ==
  /\ pc = "yielded"
  /\ calls' = Append(calls, c)
  /\ ParseInto(ImagesOf(MaxParts, MaxSegs))
  /\ UNCHANGED << gpc, fsVars, locVars, dxfFile >>

\* convert(svg_path, args.dxf) in the loop of run()
RunConvert ==
  /\ pc = "yielded"
  /\ calls' = Append(calls, c)
  /\ ParseInto(ImagesOf(RunMaxParts, 1))
  /\ UNCHANGED << gpc, fsVars, locVars, dxfFile >>

\* one run of the loop over image.flatten()
ConvertPart ==
  /\ pc = "parts" /\ k <= Len(image[1].parts)
  /\ LET part  == image[1].parts[k]
         max_y == image[1].bmaxY
     IN  IF HasSegments(part)
         THEN IF part.kind = "Broken"
              THEN pc' = "error" /\ UNCHANGED << k, drawing >>
              ELSE /\ drawing' = << [drawing[1] EXCEPT
                                       !.entities = @ \o PartPolylines(part, max_y)] >>
                   /\ k' = k + 1
                   /\ pc' = pc
         ELSE k' = k + 1 /\ UNCHANGED << pc, drawing >>
  /\ UNCHANGED << gpc, fsVars, locVars, image, dxfFile, calls >>

\* variant: the loop ends and save is not called
ConvertNoSave ==
  /\ pc = "parts" /\ k > Len(image[1].parts)
  /\ pc' = "converted"
  /\ UNCHANGED << gpc, fsVars, locVars, convVars >>

\* drawing.save(), after the loop
ConvertSave ==
  /\ pc = "parts" /\ k > Len(image[1].parts)
  /\ drawing' = << [drawing[1] EXCEPT !.saves = @ + 1] >>
  /\ dxfFile' = << [polylines |-> drawing[1].entities, page |-> c] >>
  /\ pc' = "converted"
  /\ UNCHANGED << gpc, fsVars, locVars, image, k, calls >>

(* ---------------------------------- run --------------------------------- *)

\* `if c > 0: break`, else the next advance of the iterator.  On break the
\* generator is finalised at its yield: GeneratorExit passes through the
\* with statement and the lines after it are not reached.
RunCheckBreak ==
  /\ pc = "converted"
  /\ IF BreakCond(c)
     THEN /\ pc' = "done" /\ gpc' = "closed"
          /\ cwd' = ChdirExit("orig", cwd, TRUE)
     ELSE /\ pc' = "advance" /\ gpc' = "loop"
          /\ cwd' = cwd
  /\ UNCHANGED << tmpdir, rc, locVars, convVars >>

(* ---------------------------- specifications ---------------------------- *)

\* run() at its for statement
Init ==
  /\ pc = "advance" /\ gpc = "created"
  /\ tmpdir = "none" /\ cwd = "orig" /\ rc = -1
  /\ nRead = 0 /\ nYielded = 0 /\ nSkipped = 0
  /\ page = << >> /\ desc = << >>
  /\ image = << >> /\ k = 0 /\ drawing = << >> /\ dxfFile = << >>
  /\ calls = << >>

Next ==
  \/ GenStart
  \/ LocParse
  \/ RunVisit
  \/ LocExhaust
  \/ GenEpilogue
  \/ RunConvert
  \/ ConvertPart
  \/ ConvertSave
  \/ RunCheckBreak

Spec == Init /\ [][Next]_vars

\* iter_pages_and_sizes called on a metadata file and consumed to its end
InitLoc ==
  /\ pc = "advance" /\ gpc = "parse"
  /\ tmpdir = "none" /\ cwd = "orig" /\ rc = -1
  /\ nRead = 0 /\ nYielded = 0 /\ nSkipped = 0
  /\ page = << >> /\ desc = << >>
  /\ image = << >> /\ k = 0 /\ drawing = << >> /\ dxfFile = << >>
  /\ calls = << >>

NextLoc ==
  \/ LocParse
  \/ LocVisit
  \/ LocExhaust
  \/ LocResume

SpecLoc == InitLoc /\ [][NextLoc]_vars

\* convert called on a vector file of the temporary directory
InitConv ==
  /\ pc = "yielded" /\ gpc = "yield"
  /\ tmpdir = "exists" /\ cwd = "tmp" /\ rc = 0
  /\ nRead = 1 /\ nYielded = 1 /\ nSkipped = 0
  /\ page = << >>
  /\ desc = << [path |-> << "a" >>, w |-> 72, h |-> 72] >>
  /\ image = << >> /\ k = 0 /\ drawing = << >> /\ dxfFile = << >>
  /\ calls = << >>

NextConv ==
  \/ ConvertCall
  \/ ConvertPart
  \/ ConvertSave

SpecConv == InitConv /\ [][NextConv]_vars

(* ------------------------- reference definitions ------------------------ *)

\* the size texts that are numbers, and the number each one denotes
NumberTexts == { <<"0">>, <<"-", "7">>, <<"7", "2">> }

NumberOf(t) == CASE t = <<"0">> -> 0
                 [] t = <<"-", "7">> -> 0 - 7
                 [] t = <<"7", "2">> -> 72

IsNumber(a) == a.present /\ a.text \in NumberTexts

\* the segments of the path nodes among the first n nodes, in order
RECURSIVE SrcSegs(_, _)
SrcSegs(parts, n) ==
  IF n = 0 THEN << >>
  ELSE SrcSegs(parts, n - 1)
         \o (IF parts[n].kind = "Path" THEN parts[n].segs ELSE << >>)

(* -------------------------------- claims -------------------------------- *)

\* C1: whatever the number of illustrated pages, run() calls convert for the
\* first page only (c = 0), and the drawing saved at the output path holds
\* the polylines of page 1 only.
C1_OnlyFirstPageConverted ==
  /\ \A i \in 1..Len(calls) : calls[i] = 0
  /\ dxfFile # << >> => dxfFile[1].page = 0

\* C2: however the iteration over iter_svg_from_pdf ends (exhausted, break in
\* run(), error of the subprocess or of the metadata parse), the temporary
\* directory created for it no longer exists afterwards.
C2_TmpdirRemovedOnEveryExit ==
  gpc \in {"done", "closed", "raised"} => tmpdir = "removed"

\* C3: a non-zero exit code of the extraction subprocess is fatal: it leaves
\* run() as an error, no descriptor is yielded, convert is never called and no
\* drawing is created or saved.
C3_SubprocessFailureIsFatal ==
  rc \notin {-1, 0} =>
    /\ pc = "error" /\ gpc = "raised"
    /\ nYielded = 0 /\ desc = << >>
    /\ calls = << >> /\ drawing = << >> /\ dxfFile = << >>

C3_Witness == rc = 1 /\ pc = "error" /\ tmpdir = "exists"

\* C4: an illustrated page whose WIDTH or HEIGHT is missing or is not a number
\* yields no descriptor and neither ends nor aborts the sequence; every
\* illustrated page with two positive sizes and non-empty FILEIDs yields its
\* descriptor at its place in document order, also after such a page.
C4_BadSizeSkipped ==
  /\ [](page # << >> =>
         LET p == page[1]
         IN  /\ (~IsNumber(p.w) \/ ~IsNumber(p.h)) =>
                  desc = << >> /\ pc # "error" /\ gpc # "raised"
             /\ ( /\ IsNumber(p.w) /\ NumberOf(p.w.text) > 0
                  /\ IsNumber(p.h) /\ NumberOf(p.h.text) > 0
                  /\ \A i \in 1..Len(p.ills) : p.ills[i].present /\ p.ills[i].text # << >> )
                => /\ desc # << >>
                   /\ desc[1].w = NumberOf(p.w.text)
                   /\ desc[1].h = NumberOf(p.h.text))
  /\ [][ /\ nSkipped' # nSkipped =>
              /\ nSkipped' = nSkipped + 1 /\ nYielded' = nYielded
              /\ gpc' = "loop" /\ pc' = "advance"
         /\ nYielded' # nYielded =>
              /\ nYielded' = nYielded + 1 /\ nRead' = nRead + 1
              /\ gpc' = "yield" /\ desc' # << >> ]_vars

C4_Witness ==
  /\ nSkipped > 0 /\ nRead >= 2 /\ gpc = "yield"
  /\ desc # << >> /\ desc[1].w = 72 /\ desc[1].h = 72

\* C5, as stated: every descriptor yielded has width > 0, height > 0 and a
\* non-empty file reference; a page whose declared WIDTH or HEIGHT is zero or
\* negative, or whose FILEID is empty, is passed over.
C5_PositiveSizesOnly ==
  page # << >> =>
    LET p == page[1]
    IN  /\ desc # << >> =>
             desc[1].w > 0 /\ desc[1].h > 0 /\ desc[1].path # << >>
        /\ ( \/ (IsNumber(p.w) /\ NumberOf(p.w.text) <= 0)
             \/ (IsNumber(p.h) /\ NumberOf(p.h.text) <= 0) ) => desc = << >>

\* C5, amended: every descriptor yielded has a non-empty file reference and
\* the numbers written in non-empty WIDTH and HEIGHT attributes, of any sign;
\* a page whose WIDTH, HEIGHT or FILEID (of the region read, the last one) is
\* missing or empty is passed over without error; a page with numeric sizes,
\* zero and negative ones included, and a non-empty FILEID is yielded.
C5_NonEmptyAttributesOnly ==
  page # << >> =>
    LET p == page[1]
        f == p.ills[Len(p.ills)]
        empty(a) == ~a.present \/ a.text = << >>
    IN  /\ desc # << >> =>
             /\ desc[1].path # << >>
             /\ IsNumber(p.w) /\ desc[1].w = NumberOf(p.w.text)
             /\ IsNumber(p.h) /\ desc[1].h = NumberOf(p.h.text)
        /\ (empty(p.w) \/ empty(p.h) \/ empty(f)) =>
             desc = << >> /\ pc # "error" /\ gpc # "raised"
        /\ (IsNumber(p.w) /\ IsNumber(p.h) /\ ~empty(f)) => desc # << >>

C5_Witness ==
  /\ desc # << >> /\ gpc = "yield"
  /\ desc[1].w <= 0 /\ page[1].w.text = <<"0">>

C7_FlipAboutDeclaredHeight ==
  (image # << >> /\ drawing # << >> /\ desc # << >>) =>
    LET src  == SrcSegs(image[1].parts, k - 1)
        ents == drawing[1].entities
    IN  /\ Len(ents) = Len(src)
        /\ \A i \in 1..Len(ents) :
             /\ Len(ents[i]) = Len(src[i])
             /\ \A j \in 1..Len(ents[i]) :
                  ents[i][j][2] = (desc[1].h - src[i][j].y) * 254

\* C7, amended: every point of every polyline convert appends has destination
\* y = (max_y - sourceY) / 72 * 25.4, max_y being the upper y of the bounding
\* box of the parsed vector file (the descriptor's HEIGHT is not used); a
\* source point with y = max_y maps to destination y = 0.
C7_FlipAboutBoundingBox ==
  (image # << >> /\ drawing # << >>) =>
    LET src  == SrcSegs(image[1].parts, k - 1)
        ents == drawing[1].entities
    IN  /\ Len(ents) = Len(src)
        /\ \A i \in 1..Len(ents) :
             /\ Len(ents[i]) = Len(src[i])
             /\ \A j \in 1..Len(ents[i]) :
                  /\ ents[i][j][2] = (image[1].bmaxY - src[i][j].y) * 254
                  /\ src[i][j].y = image[1].bmaxY => ents[i][j][2] = 0

C7_Witness ==
  /\ pc = "converted" /\ image # << >> /\ drawing # << >> /\ desc # << >>
  /\ image[1].bmaxY = 72 /\ desc[1].h # 72
  /\ drawing[1].entities = << << << 36 * 254, 0 >> >> >>

\* C8: while the iterator is suspended at a yield, and so during every call
\* of convert made by run(), the temporary directory exists and is the
\* working directory; it is removed only once the iteration is over.
C8_PathValidWhileIteratorLive ==
  /\ gpc = "yield" => tmpdir = "exists" /\ cwd = "tmp"
  /\ pc \in {"yielded", "parts", "converted"} => tmpdir = "exists" /\ cwd = "tmp"
  /\ tmpdir = "removed" => gpc = "done" /\ pc = "done"

C8_Witness ==
  /\ pc = "parts" /\ gpc = "yield" /\ c = 1
  /\ tmpdir = "exists" /\ cwd = "tmp"

\* C9: the polylines convert appends are one per segment of each path node,
\* in the nodes' order and each node's segment order, each with the points of
\* its segment in order (an empty segment gives an empty polyline); nodes
\* without segments add nothing and raise nothing.
C9_OnePolylinePerSegment ==
  /\ (image # << >> /\ drawing # << >>) =>
       LET src  == SrcSegs(image[1].parts, k - 1)
           ents == drawing[1].entities
       IN  /\ Len(ents) = Len(src)
           /\ \A i \in 1..Len(ents) :
                /\ Len(ents[i]) = Len(src[i])
                /\ \A j \in 1..Len(ents[i]) :
                     ents[i][j] = << src[i][j].x * 254,
                                     (image[1].bmaxY - src[i][j].y) * 254 >>
  /\ (pc = "converted" /\ \A i \in 1..Len(image[1].parts) :
                             image[1].parts[i].kind = "Text")
       => drawing[1].entities = << >>
  /\ (pc = "error" /\ image # << >>) =>
       (k <= Len(image[1].parts) /\ image[1].parts[k].kind = "Broken")

C9_Witness ==
  /\ pc = "converted"
  /\ Len(image[1].parts) = 2
  /\ image[1].parts[1].kind = "Text"
  /\ Len(drawing[1].entities) = 2
  /\ drawing[1].entities[1] = << >>
  /\ drawing[1].entities[2] = << << 36 * 254, 0 >>, << 0, 72 * 254 >> >>

\* C10: a call of convert that completes has called save exactly once, after
\* the last polyline was appended and with nothing appended afterwards; a call
\* that raises before the loop ends has not called save.
C10_SaveOnceAfterLoop ==
  /\ pc = "converted" =>
       /\ drawing # << >> /\ drawing[1].saves = 1
       /\ dxfFile # << >> /\ dxfFile[1].polylines = drawing[1].entities
  /\ pc \in {"parts", "error"} =>
       /\ drawing # << >> => drawing[1].saves = 0
       /\ dxfFile = << >>

C10_Witness ==
  /\ pc = "converted" /\ drawing[1].saves = 1
  /\ Len(dxfFile[1].polylines) = 3

====
